---- MODULE Spec2Model ----
(***************************************************************************)
(* A model of monitors.go of go-datadog-api: the custom JSON decoder of    *)
(* NoDataTimeframe (UnmarshalJSON, built on strconv.ParseInt) and the      *)
(* result-returning monitor wrappers of Client.                            *)
(*                                                                         *)
(* A JSON token is a sequence of one-character strings.  TLC's integers    *)
(* are 32 bits wide, so the uint64 accumulator of strconv.ParseUint is     *)
(* kept as two 16-bit limbs (hi, lo), un = hi * 2^16 + lo; every value the *)
(* accumulator takes before ParseUint gives up (at most 2^32 - 1) is       *)
(* represented exactly.                                                    *)
(***************************************************************************)
EXTENDS Integers, Sequences, FiniteSets, TLC

VARIABLES
    tf,      \* the target of UnmarshalJSON: *tf, a NoDataTimeframe
    data,    \* the token handed to the last UnmarshalJSON call
    ret,     \* the error the last UnmarshalJSON call returned (nil: none)
    old,     \* *tf as it was when the last call began
    op,      \* what the last step was: "init", "decode" or "reencode"
    memo,    \* an earlier call kept for comparison (token, outcome, *tf before)
    call,    \* the Client method called last ("none": none yet)
    sent,    \* the doJSONRequest calls that method made, in order
    reqErr,  \* what ParseQuery or doJSONRequest returned to it (nil: no error)
    reqOut,  \* what doJSONRequest left in out
    result,  \* the result the method returned
    cerr     \* the error the method returned

decoderVars == <<tf, data, ret, old, op, memo>>
clientVars == <<call, sent, reqErr, reqOut, result, cerr>>
vars == <<tf, data, ret, old, op, memo, call, sent, reqErr, reqOut, result, cerr>>

------------------------------------------------------------------------------
(* Bounds of the model.                                                     *)

\* Every token of at most MaxLen characters over Alphabet is an input.
MaxLen == 2
\* Every integer of -MaxSmall..MaxSmall is an input, in decimal.
MaxSmall == 12
\* A response holds at most MaxMonitors monitors, of identifiers 1..MaxID.
MaxMonitors == 2
MaxID == 2
\* A monitor name has at most MaxNameLen characters; a call gives at most
\* MaxTags tags.
MaxNameLen == 3
MaxTags == 2

------------------------------------------------------------------------------
(* Characters and tokens.                                                   *)

DigitChars == <<"0", "1", "2", "3", "4", "5", "6", "7", "8", "9">>
LetterChars == <<"a", "b", "c", "d", "e", "f", "g", "h", "i", "j", "k", "l", "m",
                 "n", "o", "p", "q", "r", "s", "t", "u", "v", "w", "x", "y", "z">>

IsDigit(c) == \E i \in 1..Len(DigitChars) : DigitChars[i] = c
IsLetter(c) == \E i \in 1..Len(LetterChars) : LetterChars[i] = c

\* c - '0'
DigitVal(c) == (CHOOSE i \in 1..Len(DigitChars) : DigitChars[i] = c) - 1
\* lower(c) - 'a' + 10
LetterVal(c) == (CHOOSE i \in 1..Len(LetterChars) : LetterChars[i] = c) + 9

\* s[1:]
Rest(s) == SubSeq(s, 2, Len(s))

FalseTok == <<"f", "a", "l", "s", "e">>
NullTok  == <<"n", "u", "l", "l">>

------------------------------------------------------------------------------
(* strconv errors.  A *NumError is {Func, Num, Err}; nil is the record      *)
(* whose Err is "nil".                                                      *)

nil == [Func |-> "", Num |-> <<>>, Err |-> "nil"]
syntaxError(fn, str) == [Func |-> fn, Num |-> str, Err |-> "ErrSyntax"]
rangeError(fn, str)  == [Func |-> fn, Num |-> str, Err |-> "ErrRange"]

------------------------------------------------------------------------------
(* strconv.ParseUint(s, base, bitSize), for 2 <= base <= 36 and             *)
(* 16 < bitSize <= 32.  The accumulator n is (hi, lo).                      *)

Limb == 2^16

\* The loop of ParseUint from character i on, the accumulator being (hi, lo).
\* The uint64 test n >= cutoff never fires: n <= maxVal < 2^32 on entry.
RECURSIVE ParseUintLoop(_, _, _, _, _, _)
ParseUintLoop(s, i, hi, lo, base, bitSize) ==
    IF i > Len(s)
    THEN [hi |-> hi, lo |-> lo, err |-> nil]
    ELSE LET c == s[i] IN
         IF ~(IsDigit(c) \/ IsLetter(c))
         THEN [hi |-> 0, lo |-> 0, err |-> syntaxError("ParseUint", s)]
         ELSE LET d   == IF IsDigit(c) THEN DigitVal(c) ELSE LetterVal(c)
                  \* n *= base; n1 := n + d
                  lo1 == lo * base + d
                  hi1 == hi * base + (lo1 \div Limb)
              IN  IF d >= base
                  THEN [hi |-> 0, lo |-> 0, err |-> syntaxError("ParseUint", s)]
                  ELSE IF hi1 >= 2^(bitSize - 16)
                       \* n1 > maxVal: return maxVal, rangeError
                       THEN [hi |-> 2^(bitSize - 16) - 1, lo |-> Limb - 1,
                             err |-> rangeError("ParseUint", s)]
                       ELSE ParseUintLoop(s, i + 1, hi1, lo1 % Limb, base, bitSize)

ParseUint(s, base, bitSize) ==
    IF s = <<>>
    THEN [hi |-> 0, lo |-> 0, err |-> syntaxError("ParseUint", s)]
    ELSE ParseUintLoop(s, 1, 0, 0, base, bitSize)

------------------------------------------------------------------------------
(* strconv.ParseInt(s, base, bitSize): [n, err].                            *)

\* int64(cutoff - 1) where cutoff = 1 << (bitSize - 1)
MaxIntOf(bitSize) == (2^(bitSize - 2) - 1) * 2 + 1
\* -int64(cutoff)
MinIntOf(bitSize) == -MaxIntOf(bitSize) - 1

\* ParseInt with the negative bound tested as the positive one is (>= for >).
ParseIntCutoff(s, base, bitSize) ==
    IF s = <<>>
    THEN [n |-> 0, err |-> syntaxError("ParseInt", s)]
    ELSE LET s0  == s
             neg == s[1] = "-"
             s1  == IF s[1] = "+" \/ s[1] = "-" THEN Rest(s) ELSE s
             u   == ParseUint(s1, base, bitSize)
             cutoffHi == 2^(bitSize - 1 - 16)
             geCutoff == u.hi >= cutoffHi
         IN  IF u.err # nil /\ u.err.Err # "ErrRange"
             THEN [n |-> 0, err |-> [Func |-> "ParseInt", Num |-> s0, Err |-> u.err.Err]]
             ELSE IF ~neg /\ geCutoff
                  THEN [n |-> MaxIntOf(bitSize), err |-> rangeError("ParseInt", s0)]
                  ELSE IF neg /\ geCutoff
                       THEN [n |-> MinIntOf(bitSize), err |-> rangeError("ParseInt", s0)]
                       ELSE [n   |-> IF neg THEN (-u.hi) * Limb - u.lo
                                            ELSE u.hi * Limb + u.lo,
                             err |-> nil]

ParseInt(s, base, bitSize) ==
    IF s = <<>>
    THEN [n |-> 0, err |-> syntaxError("ParseInt", s)]
    ELSE LET s0  == s
             neg == s[1] = "-"
             s1  == IF s[1] = "+" \/ s[1] = "-" THEN Rest(s) ELSE s
             u   == ParseUint(s1, base, bitSize)
             cutoffHi == 2^(bitSize - 1 - 16)   \* cutoff = (cutoffHi, 0)
             geCutoff == u.hi >= cutoffHi
             gtCutoff == u.hi > cutoffHi \/ (u.hi = cutoffHi /\ u.lo > 0)
         IN  IF u.err # nil /\ u.err.Err # "ErrRange"
             THEN [n |-> 0, err |-> [Func |-> "ParseInt", Num |-> s0, Err |-> u.err.Err]]
             ELSE IF ~neg /\ geCutoff
                  THEN [n |-> MaxIntOf(bitSize), err |-> rangeError("ParseInt", s0)]
                  ELSE IF neg /\ gtCutoff
                       THEN [n |-> MinIntOf(bitSize), err |-> rangeError("ParseInt", s0)]
                       ELSE [n   |-> IF neg THEN (-u.hi) * Limb - u.lo
                                            ELSE u.hi * Limb + u.lo,
                             err |-> nil]

------------------------------------------------------------------------------
(* The default JSON encoding of a NoDataTimeframe, an int kind:             *)
(* strconv.FormatInt(i, 10).                                                *)

\* The decimal digits of -m, for m <= 0 (the magnitude is kept negated: the
\* magnitude of the least 32-bit integer is no 32-bit integer).
RECURSIVE FormatBits(_)
FormatBits(m) ==
    LET d == (10 - (m % 10)) % 10      \* the last digit of -m
        q == (m + d) \div 10           \* -((-m) / 10)
    IN  IF q = 0 THEN <<DigitChars[d + 1]>>
                 ELSE FormatBits(q) \o <<DigitChars[d + 1]>>

FormatInt(i) == IF i < 0 THEN <<"-">> \o FormatBits(i) ELSE FormatBits(-i)

\* A JSON string holding s.
Quote(s) == <<"\"">> \o s \o <<"\"">>

------------------------------------------------------------------------------
(* The inputs.                                                              *)

MaxInt32 == MaxIntOf(32)
MinInt32 == MinIntOf(32)

Alphabet == {"0", "1", "-", "+"}
ShortTokens == UNION {[1..n -> Alphabet] : n \in 0..MaxLen}

SampleInts == (-MaxSmall..MaxSmall)
                \cup {30, 1440, MaxInt32 - 1, MaxInt32, MinInt32 + 1, MinInt32}
IntTokens == {FormatInt(n) : n \in SampleInts}
QuotedInts == {0, 30, -5, MaxInt32, MinInt32}
QuotedTokens == {Quote(FormatInt(n)) : n \in QuotedInts}

OtherTokens ==
    { FalseTok, NullTok,
      <<"t", "r", "u", "e">>,
      <<"a", "b", "c">>,
      Quote(<<"a", "b", "c">>),
      Quote(<<>>),
      <<"1", ".", "5">>,
      <<"1", "e", "3">>,
      <<"1", "_", "0">>,
      <<"0", "x", "1", "f">>,
      <<" ", "1">>,
      <<"1", " ">>,
      <<"-", "a">>,
      <<"+", "5">>,
      <<"+", "-", "5">>,
      <<"-", "-", "5">>,
      <<"1", "-", "1">>,
      <<"1", "+", "1">>,
      <<"-", "0", "1">>,
      <<"+", "0", "0">>,
      <<"{", "}">>,
      <<"[", "]">>,
      <<"[", "1", "]">>,
      <<"0", "0", "0", "0", "0", "0", "0", "0", "0", "0", "0", "0", "7">>,
      <<"-", "0", "0", "0", "0", "0", "0", "0", "0", "0", "0", "0", "7">>,
      <<"2", "1", "4", "7", "4", "8", "3", "6", "4", "8">>,
      <<"+", "2", "1", "4", "7", "4", "8", "3", "6", "4", "7">>,
      <<"-", "2", "1", "4", "7", "4", "8", "3", "6", "4", "9">>,
      <<"3", "0", "0", "0", "0", "0", "0", "0", "0", "0">>,
      <<"3", "0", "0", "0", "0", "0", "0", "0", "0", "0", "a">>,
      <<"4", "2", "9", "4", "9", "6", "7", "2", "9", "5">>,
      <<"4", "2", "9", "4", "9", "6", "7", "2", "9", "6">>,
      <<"9", "9", "9", "9", "9", "9", "9", "9", "9", "9", "9">>,
      <<"9", "9", "9", "9", "9", "9", "9", "9", "9", "9", "9", "a">>,
      <<"-", "9", "9", "9", "9", "9", "9", "9", "9", "9", "9", "9">> }

Tokens == ShortTokens \cup IntTokens \cup QuotedTokens \cup OtherTokens

\* The tokens of the two-call comparison.
Probes ==
    { FalseTok, NullTok, FormatInt(30), FormatInt(-5), FormatInt(MinInt32),
      <<"+", "5">>, <<"a", "b", "c">>, <<>>, <<"1", ".", "5">>,
      Quote(FormatInt(30)),
      <<"2", "1", "4", "7", "4", "8", "3", "6", "4", "8">> }

------------------------------------------------------------------------------
(* NoDataTimeframe.UnmarshalJSON: the new *tf and the returned error, from  *)
(* the current *tf and the token.                                           *)

\* strconv.ParseInt(s, 10, 32) of every input token, computed once.
\* (f @@ g of TLC builds the table instead of re-evaluating per application)
parsed == [t \in Tokens |-> ParseInt(t, 10, 32)] @@ [t \in {} |-> 0]

\* Faulty variants of UnmarshalJSON, each one plausible slip away from it.

\* null is not handled: it goes to ParseInt.
UnmarshalOnlyFalse(cur, s) ==
    IF s = FalseTok
    THEN [tf |-> 0, err |-> nil]
    ELSE LET r == ParseInt(s, 10, 32) IN
         IF r.err # nil
         THEN [tf |-> cur, err |-> r.err]
         ELSE [tf |-> r.n, err |-> nil]

\* null returns at once, *tf not assigned.
UnmarshalNullKeeps(cur, s) ==
    IF s = NullTok
    THEN [tf |-> cur, err |-> nil]
    ELSE IF s = FalseTok
         THEN [tf |-> 0, err |-> nil]
         ELSE LET r == ParseInt(s, 10, 32) IN
              IF r.err # nil
              THEN [tf |-> cur, err |-> r.err]
              ELSE [tf |-> r.n, err |-> nil]

\* false and null are stored as -1.
UnmarshalNegDisabled(cur, s) ==
    IF s = FalseTok \/ s = NullTok
    THEN [tf |-> -1, err |-> nil]
    ELSE LET r == ParseInt(s, 10, 32) IN
         IF r.err # nil
         THEN [tf |-> cur, err |-> r.err]
         ELSE [tf |-> r.n, err |-> nil]

\* The text is parsed in base 16.
UnmarshalBase16(cur, s) ==
    IF s = FalseTok \/ s = NullTok
    THEN [tf |-> 0, err |-> nil]
    ELSE LET r == ParseInt(s, 16, 32) IN
         IF r.err # nil
         THEN [tf |-> cur, err |-> r.err]
         ELSE [tf |-> r.n, err |-> nil]

\* A parse failure is returned as a new error that does not hold the text.
UnmarshalDropsText(cur, s) ==
    IF s = FalseTok \/ s = NullTok
    THEN [tf |-> 0, err |-> nil]
    ELSE LET r == ParseInt(s, 10, 32) IN
         IF r.err # nil
         THEN [tf |-> cur, err |-> [Func |-> "UnmarshalJSON", Num |-> <<>>, Err |-> r.err.Err]]
         ELSE [tf |-> r.n, err |-> nil]

\* A parse failure is swallowed: the target is set to 0 and nil returned.
UnmarshalLenient(cur, s) ==
    IF s = FalseTok \/ s = NullTok
    THEN [tf |-> 0, err |-> nil]
    ELSE LET r == ParseInt(s, 10, 32) IN
         IF r.err # nil
         THEN [tf |-> 0, err |-> nil]
         ELSE [tf |-> r.n, err |-> nil]

\* The value ParseInt returned is stored before the error is looked at.
UnmarshalStoresClamped(cur, s) ==
    LET r == ParseInt(s, 10, 32) IN
    IF s = FalseTok \/ s = NullTok
    THEN [tf |-> 0, err |-> nil]
    ELSE [tf |-> r.n, err |-> r.err]

Unmarshal(cur, s) ==
    IF s = FalseTok \/ s = NullTok
    THEN [tf |-> 0, err |-> nil]
    \* i, err := strconv.ParseInt(s, 10, 32), read off the table where it has s
    ELSE LET r == IF s \in Tokens THEN parsed[s] ELSE ParseInt(s, 10, 32) IN
         IF r.err # nil
         THEN [tf |-> cur, err |-> r.err]
         ELSE [tf |-> r.n, err |-> nil]

------------------------------------------------------------------------------
(* url.ParseQuery, as far as its error goes.                                *)

IsHex(c) == IsDigit(c) \/ c \in {"a", "b", "c", "d", "e", "f"}

\* The pieces of s between the separators sep.
RECURSIVE Split(_, _)
Split(s, sep) ==
    IF \A i \in 1..Len(s) : s[i] # sep
    THEN <<s>>
    ELSE LET i == CHOOSE k \in 1..Len(s) :
                    s[k] = sep /\ \A j \in 1..(k - 1) : s[j] # sep
         IN  <<SubSeq(s, 1, i - 1)>> \o Split(SubSeq(s, i + 1, Len(s)), sep)

\* url.QueryUnescape(s) from character i on: the malformed escape it meets
\* first (at most three characters), or <<>> when it meets none.
RECURSIVE BadEscape(_, _)
BadEscape(s, i) ==
    IF i > Len(s) THEN <<>>
    ELSE IF s[i] = "%"
         THEN IF i + 2 > Len(s) \/ ~IsHex(s[i + 1]) \/ ~IsHex(s[i + 2])
              THEN SubSeq(s, i, IF i + 2 > Len(s) THEN Len(s) ELSE i + 2)
              ELSE BadEscape(s, i + 3)
         ELSE BadEscape(s, i + 1)

\* The error of one key=value piece: of its key, else of its value.
PieceError(piece) ==
    LET parts == Split(piece, "=")
        key   == parts[1]
        value == IF Len(parts) = 1 THEN <<>>
                 ELSE SubSeq(piece, Len(key) + 2, Len(piece))
    IN  IF BadEscape(key, 1) # <<>> THEN BadEscape(key, 1) ELSE BadEscape(value, 1)

\* url.ParseQuery(query): the first error met; the pieces after it are still
\* parsed and the empty ones skipped.
ParseQuery(query) ==
    LET pieces == Split(query, "&")
        bad    == {i \in 1..Len(pieces) : pieces[i] # <<>> /\ PieceError(pieces[i]) # <<>>}
    IN  IF bad = {} THEN nil
        ELSE LET i == CHOOSE k \in bad : \A j \in bad : k <= j
             IN  [Func |-> "ParseQuery", Num |-> PieceError(pieces[i]), Err |-> "EscapeError"]

\* strings.Join(tags, ",")
RECURSIVE Join(_, _)
Join(tags, sep) ==
    IF tags = <<>> THEN <<>>
    ELSE IF Len(tags) = 1 THEN tags[1]
         ELSE tags[1] \o <<sep>> \o Join(Rest(tags), sep)

------------------------------------------------------------------------------
(* Monitors, and Client.doJSONRequest as its callers see it.                *)

\* A Monitor, as far as the decoder goes: its ID and Options.NoDataTimeframe.
ZeroMonitor == [ID |-> 0, NoDataTimeframe |-> 0]

\* A result: nil, or the monitors returned (one, behind a *Monitor).
NilResult == [nil |-> TRUE, val |-> <<>>]
Returned(ms) == [nil |-> FALSE, val |-> ms]

\* The no_data_timeframe tokens a response may hold.
RespTokens == {FormatInt(30), FalseTok, Quote(FormatInt(30))}
WireMonitors == [id : 1..MaxID, ndt : RespTokens]

Bodies(kind) ==
    IF kind = "monitor"
    THEN {<<m>> : m \in WireMonitors}
    ELSE UNION {[1..n -> WireMonitors] : n \in 0..MaxMonitors}

\* The response decoded into out: every monitor is filled in, a field whose
\* UnmarshalJSON fails is left at its zero value, and the first such error is
\* the error of the decode.
DecodeBody(body) ==
    LET dec(i) == Unmarshal(0, body[i].ndt)
        bad    == {i \in 1..Len(body) : dec(i).err # nil}
    IN  [out |-> [i \in 1..Len(body) |->
                     [ID |-> body[i].id, NoDataTimeframe |-> dec(i).tf]],
         err |-> IF bad = {} THEN nil
                 ELSE dec(CHOOSE k \in bad : \A j \in bad : k <= j).err]

TransportErrors ==
    { [Func |-> "doJSONRequest", Num |-> <<>>, Err |-> "ErrTransport"],
      [Func |-> "doJSONRequest", Num |-> <<>>, Err |-> "ErrAPI"] }

\* What one doJSONRequest(method, path, body, &out) may do: fail and leave out
\* alone, or decode a response into out and return the error of the decode.
doJSONRequest(kind) ==
    {[out |-> IF kind = "monitor" THEN <<ZeroMonitor>> ELSE <<>>, err |-> e] :
        e \in TransportErrors}
    \cup {DecodeBody(b) : b \in Bodies(kind)}

Request(method, path, arg) == [method |-> method, path |-> path, arg |-> arg]

------------------------------------------------------------------------------
(* The methods of Client that return a result: the requests made, the       *)
(* result and the error, o being what doJSONRequest did.                    *)

CreateMonitor(monitor, o) ==
    LET rq == <<Request("POST", "/v1/monitor", <<monitor>>)>> IN
    IF o.err # nil
    THEN [sent |-> rq, result |-> NilResult, err |-> o.err]
    ELSE [sent |-> rq, result |-> Returned(o.out), err |-> nil]

GetMonitor(id, o) ==
    LET rq == <<Request("GET", "/v1/monitor/%d", id)>> IN
    IF o.err # nil
    THEN [sent |-> rq, result |-> NilResult, err |-> o.err]
    ELSE [sent |-> rq, result |-> Returned(o.out), err |-> nil]

\* The query of the path is kept as the text it was parsed from.
GetMonitorsByName(name, o) ==
    LET text == <<"n", "a", "m", "e", "=">> \o name
        err  == ParseQuery(text)
        rq   == <<Request("GET", "/v1/monitor?%v", text)>>
    IN  IF err # nil
        THEN [sent |-> <<>>, result |-> NilResult, err |-> err]
        ELSE IF o.err # nil
             THEN [sent |-> rq, result |-> NilResult, err |-> o.err]
             ELSE [sent |-> rq, result |-> Returned(o.out), err |-> nil]

GetMonitorsByTags(tags, o) ==
    LET text == <<"m", "o", "n", "i", "t", "o", "r", "_", "t", "a", "g", "s", "=">>
                    \o Join(tags, ",")
        err  == ParseQuery(text)
        rq   == <<Request("GET", "/v1/monitor?%v", text)>>
    IN  IF err # nil
        THEN [sent |-> <<>>, result |-> NilResult, err |-> err]
        ELSE IF o.err # nil
             THEN [sent |-> rq, result |-> NilResult, err |-> o.err]
             ELSE [sent |-> rq, result |-> Returned(o.out), err |-> nil]

\* GetMonitors that hands out.Monitors back with the error.
GetMonitorsPartial(o) ==
    LET rq == <<Request("GET", "/v1/monitor", <<>>)>> IN
    [sent |-> rq, result |-> Returned(o.out), err |-> o.err]

\* GetMonitors that asks once more after a failure.
GetMonitorsRetry(o) ==
    LET rq == <<Request("GET", "/v1/monitor", <<>>)>> IN
    IF o.err # nil
    THEN [sent |-> rq \o rq, result |-> NilResult, err |-> o.err]
    ELSE [sent |-> rq, result |-> Returned(o.out), err |-> nil]

GetMonitors(o) ==
    LET rq == <<Request("GET", "/v1/monitor", <<>>)>> IN
    IF o.err # nil
    THEN [sent |-> rq, result |-> NilResult, err |-> o.err]
    ELSE [sent |-> rq, result |-> Returned(o.out), err |-> nil]

\* The inputs of the methods.
InputMonitors == {ZeroMonitor, [ID |-> 0, NoDataTimeframe |-> 30]}
NameAlphabet == {"a", "z", "%", "&"}
Names == UNION {[1..n -> NameAlphabet] : n \in 0..MaxNameLen}
TagNames == {<<"a">>, <<"z", "%">>, <<"%", "a", "a">>}
TagLists == UNION {[1..n -> TagNames] : n \in 0..MaxTags}

------------------------------------------------------------------------------
(* The decoder as a state machine: calls of UnmarshalJSON on one target.    *)

\* The outcome of a call kept in memo: success with a value, or an error.
NoMemo == [set |-> FALSE, data |-> <<>>, ok |-> FALSE, val |-> 0, err |-> nil, old |-> 0]

\* var tf NoDataTimeframe: the zero value
Init ==
    /\ tf = 0
    /\ data = <<>>
    /\ ret = nil
    /\ old = 0
    /\ op = "init"
    /\ memo = NoMemo
    /\ call = "none"
    /\ sent = <<>>
    /\ reqErr = nil
    /\ reqOut = <<>>
    /\ result = NilResult
    /\ cerr = nil

\* err := tf.UnmarshalJSON(t)
Call(t, kind) ==
    LET r == Unmarshal(tf, t) IN
    /\ tf' = r.tf
    /\ ret' = r.err
    /\ data' = t
    /\ old' = tf
    /\ op' = kind

Decode(t) ==
    /\ Call(t, "decode")
    /\ UNCHANGED <<memo, clientVars>>

\* The value a successful decode left is encoded again and the text decoded.
Reencode ==
    /\ op = "decode"
    /\ ret = nil
    /\ Call(FormatInt(tf), "reencode")
    /\ UNCHANGED <<memo, clientVars>>

Next ==
    \/ \E t \in Tokens : Decode(t)
    \/ Reencode

Spec == Init /\ [][Next]_vars

------------------------------------------------------------------------------
(* Calls compared two by two: memo keeps one earlier call of the run.       *)

\* A call whose token, outcome and previous *tf are kept.
Observe(t) ==
    LET r == Unmarshal(tf, t) IN
    /\ Call(t, "decode")
    /\ memo' = [set |-> TRUE, data |-> t, ok |-> r.err = nil,
                val |-> IF r.err = nil THEN r.tf ELSE 0, err |-> r.err, old |-> tf]
    /\ UNCHANGED clientVars

\* A later call, the kept one left alone.
Recall(t) ==
    /\ memo.set
    /\ Call(t, "decode")
    /\ UNCHANGED <<memo, clientVars>>

NextStateless ==
    \/ \E t \in Probes : Observe(t)
    \/ \E t \in Probes : Recall(t)

SpecStateless == Init /\ [][NextStateless]_vars

------------------------------------------------------------------------------
(* The calls of the Client methods.  The methods keep nothing from one call *)
(* to the next, so a run is one call.                                       *)

\* The method fn returned r; under is what ParseQuery or doJSONRequest gave
\* it, and out what the request left in out.
Return(fn, r, under, out) ==
    /\ call' = fn
    /\ sent' = r.sent
    /\ result' = r.result
    /\ cerr' = r.err
    /\ reqErr' = under
    /\ reqOut' = out

CallCreateMonitor ==
    /\ call = "none"
    /\ \E monitor \in InputMonitors, o \in doJSONRequest("monitor") :
          Return("CreateMonitor", CreateMonitor(monitor, o), o.err, o.out)
    /\ UNCHANGED decoderVars

CallGetMonitor ==
    /\ call = "none"
    /\ \E id \in 1..MaxID, o \in doJSONRequest("monitor") :
          Return("GetMonitor", GetMonitor(id, o), o.err, o.out)
    /\ UNCHANGED decoderVars

CallGetMonitorsByName ==
    /\ call = "none"
    /\ \E name \in Names, o \in doJSONRequest("monitors") :
          LET perr == ParseQuery(<<"n", "a", "m", "e", "=">> \o name) IN
          Return("GetMonitorsByName", GetMonitorsByName(name, o),
                 IF perr # nil THEN perr ELSE o.err,
                 IF perr # nil THEN <<>> ELSE o.out)
    /\ UNCHANGED decoderVars

CallGetMonitorsByTags ==
    /\ call = "none"
    /\ \E tags \in TagLists, o \in doJSONRequest("monitors") :
          LET perr == ParseQuery(<<"m", "o", "n", "i", "t", "o", "r", "_",
                                   "t", "a", "g", "s", "=">> \o Join(tags, ","))
          IN
          Return("GetMonitorsByTags", GetMonitorsByTags(tags, o),
                 IF perr # nil THEN perr ELSE o.err,
                 IF perr # nil THEN <<>> ELSE o.out)
    /\ UNCHANGED decoderVars

CallGetMonitors ==
    /\ call = "none"
    /\ \E o \in doJSONRequest("monitors") :
          Return("GetMonitors", GetMonitors(o), o.err, o.out)
    /\ UNCHANGED decoderVars

NextClient ==
    \/ CallCreateMonitor
    \/ CallGetMonitor
    \/ CallGetMonitorsByName
    \/ CallGetMonitorsByTags
    \/ CallGetMonitors

SpecClient == Init /\ [][NextClient]_vars

------------------------------------------------------------------------------
(* The shapes of a token, read off its characters alone.                    *)

IsDigits(s) == s # <<>> /\ \A i \in 1..Len(s) : IsDigit(s[i])

\* ASCII digits optionally prefixed with '-'
IsDashLiteral(s) ==
    IsDigits(s) \/ (s # <<>> /\ s[1] = "-" /\ IsDigits(Rest(s)))

\* ASCII digits optionally prefixed with '-' or '+'
IsSignedLiteral(s) ==
    IsDashLiteral(s) \/ (s # <<>> /\ s[1] = "+" /\ IsDigits(Rest(s)))

RECURSIVE StripZeros(_)
StripZeros(s) == IF Len(s) > 1 /\ s[1] = "0" THEN StripZeros(Rest(s)) ELSE s

\* a <= b, for digit strings without leading zeros
DigitsLE(a, b) ==
    \/ Len(a) < Len(b)
    \/ /\ Len(a) = Len(b)
       /\ \/ a = b
          \/ \E i \in 1..Len(a) :
                /\ DigitVal(a[i]) < DigitVal(b[i])
                /\ \A j \in 1..(i - 1) : a[j] = b[j]

\* The signed literal s denotes an integer of -2^31 .. 2^31 - 1.
InRange32(s) ==
    LET signed == s[1] = "-" \/ s[1] = "+"
        mag    == StripZeros(IF signed THEN Rest(s) ELSE s)
    IN  IF s[1] = "-" THEN DigitsLE(mag, Rest(FormatInt(MinInt32)))
                      ELSE DigitsLE(mag, FormatInt(MaxInt32))

Called == op # "init"

------------------------------------------------------------------------------
(* The claims.                                                              *)

\* C1: a call with the token false or the token null returns no error and
\* leaves 0 in the target, whatever the target held before.
C1_FalseNullYieldZero ==
    (Called /\ (data = FalseTok \/ data = NullTok)) => (ret = nil /\ tf = 0)

C1_Witness ==
    Called /\ data = NullTok /\ old < 0 /\ ret = nil /\ tf = 0

\* C2: a call with the decimal text of an integer n of the 32-bit signed range
\* (0, negative values and both ends of the range among them) returns no error
\* and leaves n in the target.
C2_IntegerTextYieldsInteger ==
    \A n \in SampleInts :
        (Called /\ data = FormatInt(n)) => (ret = nil /\ tf = n)

C2_Witness ==
    Called /\ data = FormatInt(MinInt32) /\ old = MaxInt32 /\ ret = nil /\ tf = MinInt32

\* C3, as stated: a token that is not false, not null and not digits with an
\* optional '-' fails, and the error holds the token unchanged.
C3_Original ==
    (Called /\ data # FalseTok /\ data # NullTok /\ ~IsDashLiteral(data))
        => (ret # nil /\ ret.Num = data)

\* C3, amended: a token that is not false, not null and not digits with an
\* optional '-' or '+' fails, and the error holds the token unchanged.
C3_MalformedFailsWithText ==
    (Called /\ data # FalseTok /\ data # NullTok /\ ~IsSignedLiteral(data))
        => (ret # nil /\ ret.Num = data)

C3_Witness ==
    /\ Called
    /\ data = Quote(<<"a", "b", "c">>)
    /\ ret # nil
    /\ ret.Num = Quote(<<"a", "b", "c">>)

\* C4: a call with the decimal text of n wrapped in double quotes succeeds and
\* leaves n in the target, as the call with the unquoted text does.
C4_QuotedAsUnquoted ==
    \A n \in QuotedInts :
        (Called /\ data = Quote(FormatInt(n))) => (ret = nil /\ tf = n)

\* C5, as stated: a call succeeds exactly when the token is false, null, or
\* digits with an optional '-' that denote an integer of the 32-bit range.
C5_Original ==
    Called =>
        (ret = nil <=> \/ data = FalseTok
                       \/ data = NullTok
                       \/ (IsDashLiteral(data) /\ InRange32(data)))

\* C5, amended: a call succeeds exactly when the token is false, null, or
\* digits with an optional '-' or '+' that denote an integer of the 32-bit
\* range.
C5_SucceedsIffAccepted ==
    Called =>
        (ret = nil <=> \/ data = FalseTok
                       \/ data = NullTok
                       \/ (IsSignedLiteral(data) /\ InRange32(data)))

C5_Witness ==
    /\ Called
    /\ data = <<"2", "1", "4", "7", "4", "8", "3", "6", "4", "8">>
    /\ ret # nil

\* C6, as stated: the target is never negative.
C6_Original == tf >= 0

\* C6, amended: the target is negative only by a successful call whose token
\* is '-' followed by digits, or by a failed call that left a negative value
\* where it was; false and null never leave a negative value.
C6_NegativeOnlyFromMinusLiteral ==
    tf < 0 =>
        \/ (ret # nil /\ tf = old)
        \/ (ret = nil /\ data # <<>> /\ data[1] = "-" /\ IsDigits(Rest(data)))

C6_Witness ==
    Called /\ data = FormatInt(-5) /\ ret = nil /\ tf = -5

\* C7: the value a successful call left, encoded in decimal and decoded
\* again, succeeds and leaves the same value.
C7_RoundTrip ==
    op = "reencode" => (ret = nil /\ tf = old)

C7_Witness ==
    op = "reencode" /\ data = FormatInt(MinInt32) /\ ret = nil /\ tf = MinInt32

C9_FailureLeavesTarget ==
    (Called /\ ret # nil) => tf = old

C9_Witness ==
    Called /\ ret # nil /\ ret.Err = "ErrRange" /\ old = 30 /\ tf = 30

\* C10: a result-returning method of Client whose ParseQuery or doJSONRequest
\* returned an error returns a nil result and that same error, whatever the
\* request left in out, and calls doJSONRequest at most once; when the request
\* succeeds it returns what was decoded and a nil error.
C10_WrappersPropagate ==
    call # "none" =>
        /\ Len(sent) <= 1
        /\ reqErr # nil => (result.nil /\ cerr = reqErr)
        /\ reqErr = nil =>
              (cerr = nil /\ ~result.nil /\ result.val = reqOut /\ Len(sent) = 1)

C10_Witness ==
    /\ call = "GetMonitors"
    /\ reqErr # nil /\ reqErr.Func = "ParseInt"
    /\ reqOut # <<>>
    /\ result.nil /\ cerr = reqErr
    /\ Len(sent) = 1

====
